---- MODULE Spec2Model ----
(***************************************************************************)
(* memc_load.py: one file unit (process_file) with its reader, its shard   *)
(* queues and its inserter threads (insert_apps_installed), the memcached  *)
(* servers behind them, and the coordinator (main) that waits for the unit.*)
(***************************************************************************)
EXTENDS Integers, Sequences, FiniteSets, TLC

\* ------------------------------------------------------------------ bounds
\* Largest --workers value tried (8 gives two inserters per device type).
MaxBudget == 8
\* Largest number of non-blank lines read from the file under Spec.
MaxLines == 2
\* Spec runs every batch threshold from 1 to BatchLimit, scaled down from
\* MEMC_BATCH_SIZE.
BatchLimit == 2
\* Number of records of the batching scenario (SpecBatch).
BatchRecords == 250
\* Largest file, and most rejected lines in it, of the error-rate scenario
\* (SpecGate).
MaxGateTotal == 101
MaxGateErrors == 2
\* Largest file of the duplicate-key scenario (SpecDup).
MaxDupLines == 2

\* --------------------------------------------------------------- constants
MEMC_BATCH_SIZE == 100
\* NORMAL_ERR_RATE = 0.01, kept as the integer 1/NORMAL_ERR_RATE.
NORMAL_ERR_RATE_INV == 100

\* devices = ['idfa', 'gaid', 'adid', 'dvid']
devices == <<"idfa", "gaid", "adid", "dvid">>
Devices == {devices[n] : n \in 1..Len(devices)}

\* The inserter threads that a run may create: (device, index in its pool).
Threads == Devices \X (1..(MaxBudget \div Len(devices)))

\* ----------------------------------------------------------------- values
\* Python's None, and what `not x` makes of a queue item.
None == [tag |-> "None"]
Falsy(x) == x = None

\* float(s) / int(s): the numerals the model reads; anything else is a
\* ValueError.
Numerals == ("0" :> 0) @@ ("1" :> 1) @@ ("2" :> 2) @@ ("3" :> 3)
IsNumeral(s) == s \in DOMAIN Numerals

\* A raw line of the file cut at its tabs: a tuple of fields. <<"">> is the
\* empty line.
Lines ==
    { <<"idfa", "d1", "1", "2", "1">>,
      <<"idfa", "d2", "2", "1", "2,3">>,
      <<"gaid", "d1", "1", "1", "1">>,
      <<"idfa", "d1", "x", "2", "1">>,
      <<"idfa", "d1", "1", "2", "1,x">>,
      <<"unknown", "d2", "1", "1", "1,x">>,
      <<"idfa", "d1", "1">>,
      <<"", "d1", "1", "2", "1">>,
      <<"idfa", "", "1", "2", "1">>,
      <<"idfa", "d1", "1", "2", "">>,
      <<"unknown", "d2", "1", "1", "1,2">>,
      <<"idfa", "d1", "1", "2", "1", "9">>,
      <<"idfa", "", "1", "2", "1", "9">>,
      <<"">> }

\* The n-th line of the batching scenario: valid, one device type, key n.
SeqLine(n) == <<"idfa", ToString(n), "1", "2", "1">>

\* line.strip() on the fields: the tabs at either end of the line go, and
\* with them the empty fields they delimit; an all-blank line is left empty.
RECURSIVE StripLeft(_)
StripLeft(line) ==
    IF Len(line) > 1 /\ Head(line) = "" THEN StripLeft(Tail(line)) ELSE line

RECURSIVE StripRight(_)
StripRight(line) ==
    IF Len(line) > 1 /\ line[Len(line)] = ""
    THEN StripRight(SubSeq(line, 1, Len(line) - 1)) ELSE line

Strip(line) == StripRight(StripLeft(line))

\* raw_apps.split(","), for the apps fields the model reads.
SplitComma ==
    ("" :> <<"">>) @@ ("1" :> <<"1">>) @@ ("2,3" :> <<"2", "3">>) @@
    ("1,2" :> <<"1", "2">>) @@ ("1,x" :> <<"1", "x">>)

AppsInstalled(dev_type, dev_id, lat, lon, apps) ==
    [tag |-> "AppsInstalled", dev_type |-> dev_type, dev_id |-> dev_id,
     lat |-> lat, lon |-> lon, apps |-> apps]

\* parse_apps_installed: [raises |-> exception name or "", value |-> result].
Returns(v) == [raises |-> "", value |-> v]
Raises(e) == [raises |-> e, value |-> None]

\* Line 67 strips the line and cuts it at its tabs; line 70 unpacks exactly
\* five fields (more is a ValueError); line 76, reached when some app token
\* is no integer, calls the str method isidigit, which does not exist.
parse_apps_installed(raw) ==
    LET line == Strip(raw) IN
    IF Len(line) < 5 THEN Returns(None)
    ELSE IF Len(line) # 5 THEN Raises("ValueError")
    ELSE IF line[1] = "" \/ line[2] = "" THEN Returns(None)
    ELSE IF \E n \in 1..Len(SplitComma[line[5]]) :
                ~IsNumeral(SplitComma[line[5]][n])
         THEN Raises("AttributeError")
    ELSE LET tokens == SplitComma[line[5]]
             apps == [n \in 1..Len(tokens) |-> Numerals[tokens[n]]]
             geo == IsNumeral(line[3]) /\ IsNumeral(line[4])
             lat == IF geo THEN <<"float", Numerals[line[3]]>>
                    ELSE <<"str", line[3]>>
             lon == IF geo THEN <<"float", Numerals[line[4]]>>
                    ELSE <<"str", line[4]>>
         IN  Returns(AppsInstalled(line[1], line[2], lat, lon, apps))

\* key = "%s:%s" % (dev_type, dev_id)
Key(r) == r.dev_type \o ":" \o r.dev_id

\* ua.SerializeToString(): the codec is opaque and injective on the message.
SerializeToString(ua) == <<ua.lat, ua.lon, ua.apps>>

\* A dict as a set of <<key, value>> pairs with one pair per key.
DictKeys(d) == {p[1] : p \in d}
DictLen(d) == Cardinality(DictKeys(d))
DictSet(d, k, v) == {p \in d : p[1] # k} \cup {<<k, v>>}

RECURSIVE SumSeq(_)
SumSeq(s) == IF s = <<>> THEN 0 ELSE Head(s) + SumSeq(Tail(s))

\* ------------------------------------------------------------------ state
VARIABLES
    dry,            \* options.dry
    batch_size,     \* the batch threshold the inserters run with
    main_pc,        \* main: "start", "join", "exited"
    exit_status,    \* the invocation's exit status, -1 while it runs
    pc,             \* process_file: where the file unit is
    exc,            \* the exception that left process_file, "" if none
    total,          \* lines counted
    inserts_by_device_count,
    device_memc,    \* device -> its queue (a sequence of items)
    errors_queue,   \* the errors Queue
    errors,         \* the sum that process_file takes from errors_queue
    outcome,        \* "none", "success" (Successful load), "failed"
    renamed,        \* how many times dot_rename renamed the file
    th,             \* thread -> "absent", "running", "returned", "raised"
    ua,             \* thread -> its UserApps message
    keys,           \* thread -> its batch dict
    memc,           \* device -> what its memcached server holds (a dict)
    calls,          \* thread -> the set_multi calls it made, in order
    put_log,        \* device -> the records process_line put on its queue
    n_rejected,     \* lines for which parse_apps_installed returned None
    n_unrouted      \* records whose device type has no queue

vars == <<dry, batch_size, main_pc, exit_status, pc, exc, total,
          inserts_by_device_count, device_memc, errors_queue, errors,
          outcome, renamed, th, ua, keys, memc, calls, put_log,
          n_rejected, n_unrouted>>

opt_vars == <<dry, batch_size>>
main_vars == <<main_pc, exit_status>>
thread_vars == <<th, ua, keys, calls>>
tail_vars == <<errors, outcome, renamed>>
ghost_vars == <<put_log, n_rejected, n_unrouted>>

InitUnit ==
    /\ main_pc = "start"
    /\ exit_status = -1
    /\ pc = "idle"
    /\ exc = ""
    /\ total = 0
    /\ inserts_by_device_count = 0
    /\ device_memc = [d \in Devices |-> <<>>]
    /\ errors_queue = <<>>
    /\ errors = 0
    /\ outcome = "none"
    /\ renamed = 0
    /\ th = [t \in Threads |-> "absent"]
    /\ ua = [t \in Threads |-> [lat |-> 0, lon |-> 0, apps |-> <<>>]]
    /\ keys = [t \in Threads |-> {}]
    /\ memc = [d \in Devices |-> {}]
    /\ calls = [t \in Threads |-> <<>>]
    /\ put_log = [d \in Devices |-> <<>>]
    /\ n_rejected = 0
    /\ n_unrouted = 0

Init ==
    /\ dry \in BOOLEAN
    \* Under --dry line 55 continues before the threshold is read: one
    \* threshold stands for all.
    /\ batch_size \in IF dry THEN {BatchLimit} ELSE 1..BatchLimit
    /\ InitUnit

\* ------------------------------------------------------------------- main
\* main: Process(target=process_file).start() for the file matched.
MainStart ==
    /\ main_pc = "start"
    /\ main_pc' = "join"
    /\ pc' = "start"
    /\ UNCHANGED <<opt_vars, exit_status, exc, total, inserts_by_device_count,
                   device_memc, errors_queue, tail_vars, thread_vars, memc,
                   ghost_vars>>

\* The file unit's process has ended: process_file returned or raised, and
\* none of its (non-daemon) threads is still running.
ProcessEnded ==
    /\ pc \in {"returned", "raised"}
    /\ \A t \in Threads : th[t] # "running"

\* main: p.join() returns, main returns, the interpreter exits with 0.
MainExit ==
    /\ main_pc = "join"
    /\ ProcessEnded
    /\ main_pc' = "exited"
    /\ exit_status' = 0
    /\ UNCHANGED <<opt_vars, pc, exc, total, inserts_by_device_count,
                   device_memc, errors_queue, tail_vars, thread_vars, memc,
                   ghost_vars>>

\* Lines 200-204: main itself raises before it has a child process (the
\* Process cannot be created or started); the handler logs and exits with 1.
MainRaises ==
    /\ main_pc = "start"
    /\ main_pc' = "exited"
    /\ exit_status' = 1
    /\ UNCHANGED <<opt_vars, pc, exc, total, inserts_by_device_count,
                   device_memc, errors_queue, tail_vars, thread_vars, memc,
                   ghost_vars>>

\* ----------------------------------------------------------- process_file
\* inserts_by_device_count = int(int(options.workers) / len(devices))
PoolSize(w) == w \div Len(devices)

\* Lines 102-114 with options.workers = workers: the queues, and one started
\* thread per pool slot.
StartWorkers(workers) ==
    /\ pc = "start"
    /\ inserts_by_device_count' = PoolSize(workers)
    /\ th' = [t \in Threads |->
                IF t[2] <= PoolSize(workers) THEN "running" ELSE "absent"]
    /\ pc' = "read"
    /\ UNCHANGED <<opt_vars, main_vars, exc, total, device_memc, errors_queue,
                   tail_vars, ua, keys, calls, memc, ghost_vars>>

\* Lines 120-127 for one line of the file, process_line (85-96) included: a
\* line that is empty once stripped is skipped.
ReadLine(line) ==
    /\ pc = "read"
    /\ IF Strip(line) = <<"">>
       THEN UNCHANGED <<pc, exc, total, device_memc, errors_queue, ghost_vars>>
       ELSE LET res == parse_apps_installed(line)
                r == res.value
            IN  /\ total' = total + 1
                /\ IF res.raises # ""
                   THEN /\ pc' = "raised"
                        /\ exc' = res.raises
                        /\ UNCHANGED <<device_memc, errors_queue, ghost_vars>>
                   ELSE IF Falsy(r)
                   THEN /\ errors_queue' = Append(errors_queue, 1)
                        /\ n_rejected' = n_rejected + 1
                        /\ UNCHANGED <<pc, exc, device_memc, put_log,
                                       n_unrouted>>
                   ELSE IF r.dev_type \notin DOMAIN device_memc
                   THEN /\ errors_queue' = Append(errors_queue, 1)
                        /\ n_unrouted' = n_unrouted + 1
                        /\ UNCHANGED <<pc, exc, device_memc, put_log,
                                       n_rejected>>
                   ELSE /\ device_memc' =
                              [device_memc EXCEPT ![r.dev_type] = Append(@, r)]
                        /\ put_log' = [put_log EXCEPT ![r.dev_type] = Append(@, r)]
                        /\ UNCHANGED <<pc, exc, errors_queue, n_rejected,
                                       n_unrouted>>
    /\ UNCHANGED <<opt_vars, main_vars, inserts_by_device_count, tail_vars,
                   thread_vars, memc>>

\* Line 120 on a file whose gzip stream is cut short or corrupt: the read
\* raises (EOFError here) and the exception leaves process_file.
ReadError ==
    /\ pc = "read"
    /\ pc' = "raised"
    /\ exc' = "EOFError"
    /\ UNCHANGED <<opt_vars, main_vars, total, inserts_by_device_count,
                   device_memc, errors_queue, tail_vars, thread_vars, memc,
                   ghost_vars>>

\* The line stream ends (line 120's loop is over).
EndOfStream ==
    /\ pc = "read"
    /\ pc' = "sentinels"
    /\ UNCHANGED <<opt_vars, main_vars, exc, total, inserts_by_device_count,
                   device_memc, errors_queue, tail_vars, thread_vars, memc,
                   ghost_vars>>

\* Lines 129-131: inserts_by_device_count times None on every queue.
PushSentinels ==
    /\ pc = "sentinels"
    /\ device_memc' = [d \in Devices |->
          device_memc[d] \o [n \in 1..inserts_by_device_count |-> None]]
    /\ pc' = "join"
    /\ UNCHANGED <<opt_vars, main_vars, exc, total, inserts_by_device_count,
                   errors_queue, tail_vars, thread_vars, memc, ghost_vars>>

\* --------------------------------------------- insert_apps_installed
\* The item a running thread's queue.get() returns, when there is one.
CanGet(t) == th[t] = "running" /\ device_memc[t[1]] # <<>>
Item(t) == Head(device_memc[t[1]])
Dequeue(t) == device_memc' = [device_memc EXCEPT ![t[1]] = Tail(@)]

\* What memc_client.set_multi(batch) may report as failed keys: nothing, every
\* key (a dead server), or one key of the batch.
FailChoices(batch) ==
    {{}, DictKeys(batch)} \cup {{k} : k \in DictKeys(batch)}

\* The server after set_multi(batch) that reports the keys in failed.
Stored(server, batch, failed) ==
    {p \in server : p[1] \notin DictKeys(batch) \ failed}
        \cup {p \in batch : p[1] \notin failed}

\* Mutant of SetMulti: the failed keys are logged but not put on the errors
\* queue.
SetMultiUncounted(t, failed) ==
    /\ memc' = [memc EXCEPT ![t[1]] = Stored(@, keys[t], failed)]
    /\ calls' = [calls EXCEPT ![t] =
                    Append(@, [batch |-> keys[t], failed |-> failed,
                               raised |-> FALSE])]
    /\ UNCHANGED errors_queue

\* memc_client.set_multi(keys[t]) returning failed, and lines 44-46 / 61-63.
SetMulti(t, failed) ==
    /\ memc' = [memc EXCEPT ![t[1]] = Stored(@, keys[t], failed)]
    /\ calls' = [calls EXCEPT ![t] =
                    Append(@, [batch |-> keys[t], failed |-> failed,
                               raised |-> FALSE])]
    /\ errors_queue' = IF failed # {}
                       THEN Append(errors_queue, Cardinality(failed))
                       ELSE errors_queue

\* memc_client.set_multi(keys[t]) raising: nothing catches it, the thread
\* dies with the exception.
SetMultiRaises(t) ==
    /\ calls' = [calls EXCEPT ![t] =
                    Append(@, [batch |-> keys[t], failed |-> {},
                               raised |-> TRUE])]
    /\ th' = [th EXCEPT ![t] = "raised"]
    /\ UNCHANGED <<memc, errors_queue, ua, keys>>

\* Lines 48-52: the thread's one message takes the record's lat and lon and
\* has the record's apps appended to those it already holds.
Filled(msg, r) ==
    [lat |-> r.lat[2], lon |-> r.lon[2], apps |-> msg.apps \o r.apps]

unit_vars == <<opt_vars, main_vars, pc, exc, total, inserts_by_device_count,
               tail_vars, put_log, n_rejected, n_unrouted>>

\* Lines 40-47, None dequeued with an empty batch: return.
WorkerSentinelEmpty(t) ==
    /\ CanGet(t) /\ Falsy(Item(t))
    /\ keys[t] = {}
    /\ Dequeue(t)
    /\ th' = [th EXCEPT ![t] = "returned"]
    /\ UNCHANGED <<unit_vars, ua, keys, calls, memc, errors_queue>>

\* Mutant of WorkerSentinelFlush: the inserter returns on the sentinel
\* without sending its batch.
WorkerSentinelFlushSkipped(t, failed) ==
    /\ CanGet(t) /\ Falsy(Item(t))
    /\ keys[t] # {}
    /\ Dequeue(t)
    /\ th' = [th EXCEPT ![t] = "returned"]
    /\ UNCHANGED <<unit_vars, ua, keys, calls, memc, errors_queue>>

\* Lines 40-47, None dequeued with a batch: one set_multi, then return.
WorkerSentinelFlush(t, failed) ==
    /\ CanGet(t) /\ Falsy(Item(t))
    /\ keys[t] # {}
    /\ Dequeue(t)
    /\ SetMulti(t, failed)
    /\ th' = [th EXCEPT ![t] = "returned"]
    /\ UNCHANGED <<unit_vars, ua, keys>>

\* Line 43 raising.
WorkerSentinelFlushRaises(t) ==
    /\ CanGet(t) /\ Falsy(Item(t))
    /\ keys[t] # {}
    /\ Dequeue(t)
    /\ SetMultiRaises(t)
    /\ UNCHANGED unit_vars

\* Line 48 with a lat that float() did not convert: assigning a str to the
\* message's double field raises TypeError and the thread dies.
WorkerTypeError(t) ==
    /\ CanGet(t) /\ ~Falsy(Item(t))
    /\ Item(t).lat[1] # "float"
    /\ Dequeue(t)
    /\ th' = [th EXCEPT ![t] = "raised"]
    /\ UNCHANGED <<unit_vars, ua, keys, calls, memc, errors_queue>>

\* Lines 48-55 under --dry: log and continue.
WorkerDryRun(t) ==
    /\ CanGet(t) /\ ~Falsy(Item(t))
    /\ Item(t).lat[1] = "float"
    /\ dry
    /\ Dequeue(t)
    /\ ua' = [ua EXCEPT ![t] = Filled(@, Item(t))]
    /\ UNCHANGED <<unit_vars, th, keys, calls, memc, errors_queue>>

\* Mutant of WorkerAdd: the record is added while the batch holds up to the
\* threshold, not fewer.
WorkerAddPastThreshold(t) ==
    /\ CanGet(t) /\ ~Falsy(Item(t))
    /\ Item(t).lat[1] = "float"
    /\ ~dry
    /\ DictLen(keys[t]) <= batch_size
    /\ Dequeue(t)
    /\ ua' = [ua EXCEPT ![t] = Filled(@, Item(t))]
    /\ keys' = [keys EXCEPT ![t] =
                  DictSet(@, Key(Item(t)), SerializeToString(ua'[t]))]
    /\ UNCHANGED <<unit_vars, th, calls, memc, errors_queue>>

\* Lines 48-57: the batch is below the threshold, the record goes into it.
WorkerAdd(t) ==
    /\ CanGet(t) /\ ~Falsy(Item(t))
    /\ Item(t).lat[1] = "float"
    /\ ~dry
    /\ DictLen(keys[t]) < batch_size
    /\ Dequeue(t)
    /\ ua' = [ua EXCEPT ![t] = Filled(@, Item(t))]
    /\ keys' = [keys EXCEPT ![t] =
                  DictSet(@, Key(Item(t)), SerializeToString(ua'[t]))]
    /\ UNCHANGED <<unit_vars, th, calls, memc, errors_queue>>

\* Lines 48-52 and 58-63: the batch is at the threshold; it is sent and
\* cleared, and the record just dequeued is in neither.
WorkerFlush(t, failed) ==
    /\ CanGet(t) /\ ~Falsy(Item(t))
    /\ Item(t).lat[1] = "float"
    /\ ~dry
    /\ ~(DictLen(keys[t]) < batch_size)
    /\ Dequeue(t)
    /\ ua' = [ua EXCEPT ![t] = Filled(@, Item(t))]
    /\ SetMulti(t, failed)
    /\ keys' = [keys EXCEPT ![t] = {}]
    /\ UNCHANGED <<unit_vars, th>>

\* Line 59 raising.
WorkerFlushRaises(t) ==
    /\ CanGet(t) /\ ~Falsy(Item(t))
    /\ Item(t).lat[1] = "float"
    /\ ~dry
    /\ ~(DictLen(keys[t]) < batch_size)
    /\ Dequeue(t)
    /\ SetMultiRaises(t)
    /\ UNCHANGED unit_vars

\* ------------------------------------------------- process_file, the end
\* Mutant of JoinAndSum: the errors queue is summed without the joins.
JoinAndSumUnjoined ==
    /\ pc = "join"
    /\ errors' = SumSeq(errors_queue)
    /\ errors_queue' = <<>>
    /\ pc' = "rate"
    /\ UNCHANGED <<opt_vars, main_vars, exc, total, inserts_by_device_count,
                   device_memc, outcome, renamed, thread_vars, memc,
                   ghost_vars>>

\* Lines 133-138: every thread joined, then the errors queue summed.
JoinAndSum ==
    /\ pc = "join"
    /\ \A t \in Threads : th[t] # "running"
    /\ errors' = SumSeq(errors_queue)
    /\ errors_queue' = <<>>
    /\ pc' = "rate"
    /\ UNCHANGED <<opt_vars, main_vars, exc, total, inserts_by_device_count,
                   device_memc, outcome, renamed, thread_vars, memc,
                   ghost_vars>>

\* Mutant of Acceptable: err_rate <= NORMAL_ERR_RATE.
AcceptableLeq(e, n) == e * NORMAL_ERR_RATE_INV <= n

\* err_rate < NORMAL_ERR_RATE for err_rate = float(e) / n, n > 0: for the
\* line counts of the model the quotient's rounding never changes the
\* comparison, which is that of the exact ratio.
Acceptable(e, n) == e * NORMAL_ERR_RATE_INV < n

\* Lines 142-146: the division, then the comparison and its log line.
CheckErrRate ==
    /\ pc = "rate"
    /\ IF total = 0
       THEN /\ pc' = "raised"
            /\ exc' = "ZeroDivisionError"
            /\ UNCHANGED outcome
       ELSE /\ outcome' = IF Acceptable(errors, total) THEN "success"
                          ELSE "failed"
            /\ pc' = "rename"
            /\ UNCHANGED exc
    /\ UNCHANGED <<opt_vars, main_vars, total, inserts_by_device_count,
                   device_memc, errors_queue, errors, renamed, thread_vars,
                   memc, ghost_vars>>

\* Mutant of dot_rename: the file is renamed only after a successful load.
dot_rename_on_success ==
    /\ pc = "rename"
    /\ renamed' = IF outcome = "success" THEN renamed + 1 ELSE renamed
    /\ pc' = "returned"
    /\ UNCHANGED <<opt_vars, main_vars, exc, total, inserts_by_device_count,
                   device_memc, errors_queue, errors, outcome, thread_vars,
                   memc, ghost_vars>>

\* Lines 147-148 and dot_rename (28-31).
dot_rename ==
    /\ pc = "rename"
    /\ renamed' = renamed + 1
    /\ pc' = "returned"
    /\ UNCHANGED <<opt_vars, main_vars, exc, total, inserts_by_device_count,
                   device_memc, errors_queue, errors, outcome, thread_vars,
                   memc, ghost_vars>>

\* --------------------------------------------------------- specifications
Inserter(t) ==
    \/ WorkerSentinelEmpty(t)
    \/ \E failed \in FailChoices(keys[t]) : WorkerSentinelFlush(t, failed)
    \/ WorkerSentinelFlushRaises(t)
    \/ WorkerTypeError(t)
    \/ WorkerDryRun(t)
    \/ WorkerAdd(t)
    \/ \E failed \in FailChoices(keys[t]) : WorkerFlush(t, failed)
    \/ WorkerFlushRaises(t)

Next ==
    \/ MainStart
    \/ \E workers \in 1..MaxBudget : StartWorkers(workers)
    \/ \E line \in Lines : total < MaxLines /\ ReadLine(line)
    \/ ReadError
    \/ EndOfStream
    \/ PushSentinels
    \/ \E t \in Threads : Inserter(t)
    \/ JoinAndSum
    \/ CheckErrRate
    \/ dot_rename
    \/ MainExit
    \/ MainRaises

Spec == Init /\ [][Next]_vars

\* The batching scenario: --workers 4 (one inserter per device type), no
\* --dry, the threshold of the source, a store that reports no failed key, and
\* a file of BatchRecords valid idfa lines with distinct device ids.
InitBatch ==
    /\ dry = FALSE
    /\ batch_size = MEMC_BATCH_SIZE
    /\ InitUnit

ReliableInserter(t) ==
    \/ WorkerSentinelEmpty(t)
    \/ WorkerSentinelFlush(t, {})
    \/ WorkerAdd(t)
    \/ WorkerFlush(t, {})

NextBatch ==
    \/ MainStart
    \/ StartWorkers(Len(devices))
    \/ total < BatchRecords /\ ReadLine(SeqLine(total + 1))
    \/ total = BatchRecords /\ EndOfStream
    \/ PushSentinels
    \/ \E t \in Threads : ReliableInserter(t)
    \/ JoinAndSum
    \/ CheckErrRate
    \/ dot_rename
    \/ MainExit

SpecBatch == InitBatch /\ [][NextBatch]_vars

\* The error-rate scenario: as the batching scenario, for every file of up to
\* MaxGateTotal lines that starts with up to MaxGateErrors lines of three
\* fields and goes on with valid idfa lines with distinct device ids.
GateLines ==
    {SeqLine(total + 1)} \cup
    (IF put_log["idfa"] = <<>> /\ n_rejected < MaxGateErrors
     THEN {<<"idfa", "d1", "1">>} ELSE {})

NextGate ==
    \/ MainStart
    \/ StartWorkers(Len(devices))
    \/ \E line \in GateLines : total < MaxGateTotal /\ ReadLine(line)
    \/ EndOfStream
    \/ PushSentinels
    \/ \E t \in Threads : ReliableInserter(t)
    \/ JoinAndSum
    \/ CheckErrRate
    \/ dot_rename
    \/ MainExit

SpecGate == InitBatch /\ [][NextGate]_vars

\* The duplicate-key scenario: one or two inserters per device type, the
\* threshold of the source, a store that reports no failed key, and every
\* file of up to MaxDupLines lines that give one key different values.
DupLines ==
    { <<"idfa", "d1", "1", "2", "1">>,
      <<"idfa", "d1", "2", "1", "2,3">> }

DupInserter(t) ==
    \/ WorkerSentinelEmpty(t)
    \/ WorkerSentinelFlush(t, {})
    \/ WorkerAdd(t)

NextDup ==
    \/ MainStart
    \/ \E pool \in 1..2 : StartWorkers(pool * Len(devices))
    \/ \E line \in DupLines : total < MaxDupLines /\ ReadLine(line)
    \/ EndOfStream
    \/ PushSentinels
    \/ \E t \in Threads : DupInserter(t)
    \/ JoinAndSum
    \/ CheckErrRate
    \/ dot_rename
    \/ MainExit

SpecDup == InitBatch /\ [][NextDup]_vars

\* ------------------------------------------------------------- properties
ThreadsOf(d) == {t \in Threads : t[1] = d}
CallsOf(d) == UNION {{calls[t][n] : n \in 1..Len(calls[t])} : t \in ThreadsOf(d)}
AllCalls == UNION {CallsOf(d) : d \in Devices}

\* The keys that some set_multi call on d's server was given.
SentKeys(d) == UNION {DictKeys(c.batch) : c \in CallsOf(d)}

\* The sizes of the batches of t's set_multi calls, in order.
FlushSizes(t) == [n \in 1..Len(calls[t]) |-> DictLen(calls[t][n].batch)]

\* The records still on d's queue, and the records taken from it so far.
RecordsLeft(d) == SelectSeq(device_memc[d], LAMBDA x : ~Falsy(x))
Taken(d) == SubSeq(put_log[d], 1, Len(put_log[d]) - Len(RecordsLeft(d)))

\* No set_multi call so far reported a failed key or raised.
StoreNeverFailed == \A c \in AllCalls : c.failed = {} /\ ~c.raised

RECURSIVE FailedIn(_)
FailedIn(log) ==
    IF log = <<>> THEN 0
    ELSE Cardinality(Head(log).failed) + FailedIn(Tail(log))

RECURSIVE FailedKeysOf(_)
FailedKeysOf(T) ==
    IF T = {} THEN 0
    ELSE LET t == CHOOSE x \in T : TRUE
         IN  FailedIn(calls[t]) + FailedKeysOf(T \ {t})

\* The number of keys that set_multi calls reported failed, over all calls of
\* all threads.
FailedKeysReported == FailedKeysOf(Threads)

\* process_file is past the joins of line 134.
Joined == pc \in {"rate", "rename", "returned"}
           \/ (pc = "raised" /\ exc = "ZeroDivisionError")

\* The value that holds exactly r's own lat, lon and apps.
OwnValue(r) ==
    SerializeToString([lat |-> r.lat[2], lon |-> r.lon[2], apps |-> r.apps])

\* C1: without --dry and with a store that never fails, every record taken
\* from a shard's queue has its key in some set_multi call by the time the
\* shard's inserters have returned.
C1_NoRecordDropped ==
    \A d \in Devices :
        (/\ ~dry
         /\ StoreNeverFailed
         /\ \A t \in ThreadsOf(d) : th[t] = "returned")
        => \A n \in 1..Len(Taken(d)) : Key(Taken(d)[n]) \in SentKeys(d)

\* What the code does instead: an inserter has returned, the store never
\* failed, and a record it took from the queue was in no set_multi call.
C1_Dropped ==
    \E d \in Devices :
        /\ ~dry
        /\ StoreNeverFailed
        /\ \A t \in ThreadsOf(d) : th[t] = "returned"
        /\ \E n \in 1..Len(Taken(d)) : Key(Taken(d)[n]) \notin SentKeys(d)

\* C2: one inserter, threshold 100, 250 records with distinct keys and then
\* the sentinel: exactly three set_multi calls, of 100, 100 and 50 keys.
C2_Flushes_100_100_50 ==
    (pc = "returned" /\ total = 250 /\ batch_size = 100)
    => FlushSizes(<<"idfa", 1>>) = <<100, 100, 50>>

\* What the code does instead: three calls of 100, 100 and 48 keys.
C2_Flushes_100_100_48 ==
    /\ pc = "returned" /\ total = 250 /\ batch_size = 100
    /\ FlushSizes(<<"idfa", 1>>) = <<100, 100, 48>>

\* C3: with a pool of N >= 1 inserters per shard, once process_file is past
\* its joins every started inserter has consumed one sentinel and returned,
\* and every shard queue is empty.
C3_SentinelsConsumed ==
    (Joined /\ inserts_by_device_count >= 1)
    => /\ \A d \in Devices : device_memc[d] = <<>>
       /\ \A t \in Threads : th[t] \in {"absent", "returned"}

\* C4: a set_multi call that raises is absorbed: the inserter keeps running
\* and the errors queue receives the size of the batch.
C4_FlushFailureAbsorbed ==
    [][\A t \in Threads :
          (Len(calls'[t]) > Len(calls[t]) /\ calls'[t][Len(calls'[t])].raised)
          => /\ th'[t] = "running"
             /\ errors_queue' = Append(errors_queue, DictLen(keys[t]))]_vars

\* C5: for every worker budget of at least 1, every shard is started with at
\* least one inserter.
C5_PoolAtLeastOne ==
    pc \notin {"idle", "start"}
    => /\ inserts_by_device_count >= 1
       /\ \A d \in Devices : \E t \in ThreadsOf(d) : th[t] # "absent"

\* C6: the file is renamed at most once; once the error-rate check has logged
\* either outcome the rename is the next thing process_file does, and
\* process_file returns with the file renamed exactly once; and no inserter
\* is running any more when the file is renamed.
C6_RenamedOnceAfterWorkers ==
    /\ renamed <= 1
    /\ outcome # "none" => pc \in {"rename", "returned"}
    /\ pc = "rename" => renamed = 0
    /\ pc = "returned" => renamed = 1
    /\ renamed = 1 => /\ outcome \in {"success", "failed"}
                      /\ \A t \in Threads : th[t] # "running"

\* process_file returned from a load logged as failed, with the file renamed.
C6_Witness == pc = "returned" /\ outcome = "failed" /\ renamed = 1

\* C7: a file with no non-blank line is a successful no-op: process_file
\* raises nothing and renames the file.
C7_EmptyFileIsNoOp ==
    (total = 0 /\ pc \in {"raised", "returned"})
    => (exc = "" /\ renamed = 1)

\* What the code does instead: ZeroDivisionError, and the file keeps its name.
C7_EmptyFileRaises ==
    total = 0 /\ pc = "raised" /\ exc = "ZeroDivisionError" /\ renamed = 0

\* C8: where process_file computes the error rate, the summed error count is
\* the number of lines the parser rejected, plus the number of lines with an
\* unknown device type, plus the number of keys that set_multi calls reported
\* failed.
C8_ErrorsAccounted ==
    Joined => errors = n_rejected + n_unrouted + FailedKeysReported

\* The sum is taken after a set_multi call reported two failed keys.
C8_Witness ==
    /\ pc = "rate"
    /\ \E c \in AllCalls : Cardinality(c.failed) = 2
    /\ errors = 2

\* C9: the load is logged successful iff 100 * errors < total and failed
\* otherwise; 100 lines with no error are a success, 100 lines with one or
\* two errors are a failure; and the step that decides leaves the store and
\* the exit status as they are, the exit status being 0 in the end.
C9_Decision ==
    /\ outcome # "none" => (outcome = "success" <=> 100 * errors < total)
    /\ (outcome # "none" /\ total = 100 /\ errors = 0) => outcome = "success"
    /\ (outcome # "none" /\ total = 100 /\ errors \in {1, 2})
          => outcome = "failed"
    /\ main_pc = "exited" => exit_status = 0

C9_ReportingOnly ==
    [](C9_Decision) /\
    [][outcome' # outcome => (memc' = memc /\ exit_status' = exit_status)]_vars

\* 100 lines of which one was rejected: logged failed, the 99 records written
\* are in the store, and the invocation has exited with 0.
C9_Witness ==
    /\ total = 100 /\ errors = 1 /\ outcome = "failed"
    /\ Cardinality(memc["idfa"]) = 99
    /\ exit_status = 0

\* C10: the value stored under a key holds exactly the lat, lon and apps of a
\* record with that key that was put on the shard's queue.
C10_ValueIsOwnRecord ==
    \A d \in Devices : \A p \in memc[d] :
        \E n \in 1..Len(put_log[d]) :
            /\ Key(put_log[d][n]) = p[1]
            /\ put_log[d][n].lat[1] = "float"
            /\ OwnValue(put_log[d][n]) = p[2]

\* ---- Lines the reader cannot use --------------------------------------------

\* The line forms the reader is to count and skip: too few fields, an empty
\* device type or device id, or a device type without a configured address.
Unusable(line) ==
    /\ Strip(line) # <<"">>
    /\ \/ Len(line) < 5
       \/ line[1] = ""
       \/ line[2] = ""
       \/ line[1] \notin Devices

\* What counting and skipping a line does: one more error, nothing queued,
\* nothing written, and the reader stays in its loop.
CountedAndSkipped ==
    /\ errors_queue' = Append(errors_queue, 1)
    /\ device_memc' = device_memc
    /\ memc' = memc
    /\ calls' = calls
    /\ pc' = "read"

\* C11: reading a line that has fewer than 5 fields, an empty device type or
\* id, or an unconfigured device type adds exactly 1 to the error counter,
\* enqueues nothing, writes nothing and leaves the reader reading.
C11_UnusableLineCounted ==
    [][\A line \in Lines :
          (Unusable(line) /\ ReadLine(line)) => CountedAndSkipped]_vars

\* C12: a line with at least 5 fields, a device type and a device id is
\* parsed into a record: reading it neither rejects it nor raises.
C12_WellFormedLineParsed ==
    [][\A line \in Lines :
          (/\ Len(line) >= 5
           /\ line[1] # ""
           /\ line[2] # ""
           /\ ReadLine(line))
          => (pc' = "read" /\ n_rejected' = n_rejected)]_vars

\* A line with its five fields, an identity and a configured device type,
\* some of whose app tokens or coordinates are not numbers.
PartlyNumeric(line) ==
    /\ Len(line) = 5
    /\ line[1] \in Devices
    /\ line[2] # ""
    /\ line[5] # ""
    /\ \/ ~IsNumeral(line[3])
       \/ ~IsNumeral(line[4])
       \/ \E n \in 1..Len(SplitComma[line[5]]) :
             ~IsNumeral(SplitComma[line[5]][n])

\* A queued record whose coordinates stayed text.
TextGeo(r) == ~Falsy(r) /\ (r.lat[1] = "str" \/ r.lon[1] = "str")

\* C13: a line whose app tokens or coordinates do not parse is still turned
\* into a record: reading it counts no error, queues one record and leaves
\* the reader reading; and the inserter that takes such a record keeps
\* running.
C13_PartialContentNotFatal ==
    [][/\ \A line \in Lines :
             (PartlyNumeric(line) /\ ReadLine(line))
             => /\ pc' = "read"
                /\ errors_queue' = errors_queue
                /\ Len(device_memc'[line[1]]) = Len(device_memc[line[1]]) + 1
       /\ \A d \in Devices :
             (/\ device_memc[d] # <<>>
              /\ TextGeo(Head(device_memc[d]))
              /\ device_memc'[d] = Tail(device_memc[d]))
             => \A t \in ThreadsOf(d) : th'[t] = th[t]]_vars

\* An inserter died of a record whose coordinates stayed text.
C13_InserterDied ==
    \E t \in Threads :
        /\ th[t] = "raised"
        /\ \E n \in 1..Len(put_log[t[1]]) : TextGeo(put_log[t[1]][n])
        /\ calls[t] = <<>>

\* ---- Dry runs ---------------------------------------------------------------

\* No inserter has called the store, and the only errors counted are the
\* reader's.
NoStoreTraffic ==
    /\ AllCalls = {}
    /\ \A d \in Devices : memc[d] = {}
    /\ FailedKeysReported = 0
    /\ ~Joined => SumSeq(errors_queue) = n_rejected + n_unrouted
    /\ Joined => errors = n_rejected + n_unrouted

\* C14: under --dry no inserter ever calls the store and no flush counts an
\* error; and once the inserters are joined, each one that was started has
\* taken every record of its queue and returned on its sentinel.
C14_DryRunOnlyConsumes ==
    dry => /\ NoStoreTraffic
           /\ (Joined /\ inserts_by_device_count >= 1)
              => /\ \A t \in Threads : th[t] \in {"absent", "returned"}
                 /\ \A d \in Devices : device_memc[d] = <<>>

\* A dry run was joined with an inserter dead and a record left in its queue.
C14_DryRunInserterDied ==
    /\ dry /\ Joined /\ inserts_by_device_count = 1
    /\ \E t \in Threads : th[t] = "raised" /\ RecordsLeft(t[1]) # <<>>
    /\ NoStoreTraffic

\* ---- Exit status ------------------------------------------------------------

\* C15: when the invocation has exited, its status is nonzero if the file
\* unit's processing ended with an exception, and 0 if it returned, whatever
\* the error-rate outcome.
C15_ExitStatusTellsFailure ==
    main_pc = "exited" =>
        /\ pc = "raised" => exit_status # 0
        /\ pc = "returned" => exit_status = 0

\* The file unit raised and the invocation exited with 0.
C15_RaisedButExitZero ==
    main_pc = "exited" /\ pc = "raised" /\ exc # "" /\ exit_status = 0

\* ---- Order of the writes ----------------------------------------------------

\* Lines 38-63 run by one inserter alone over the records recs in queue
\* order, then the sentinel: the store it leaves. msg is its message, batch
\* its keys, server the store so far; no store call fails.
RECURSIVE OneInserterStore(_, _, _, _)
OneInserterStore(recs, msg, batch, server) ==
    IF recs = <<>>
    THEN IF batch = {} THEN server ELSE Stored(server, batch, {})
    ELSE LET r == Head(recs)
             m == Filled(msg, r)
         IN  IF DictLen(batch) < batch_size
             THEN OneInserterStore(Tail(recs), m,
                                   DictSet(batch, Key(r), SerializeToString(m)),
                                   server)
             ELSE OneInserterStore(Tail(recs), m, {},
                                   Stored(server, batch, {}))

\* The file unit is over, it wrote for real, every inserter returned and no
\* store call failed.
CleanRun ==
    /\ pc = "returned" /\ ~dry
    /\ inserts_by_device_count >= 1
    /\ \A t \in Threads : th[t] \in {"absent", "returned"}
    /\ StoreNeverFailed

\* C16: with a store that never fails, the store a file leaves behind does
\* not depend on how the inserters of a shard interleave, nor on how many
\* they are: it is the store one inserter taking the records in file order
\* leaves.
C16_StoreIndependentOfSchedule ==
    CleanRun =>
        \A d \in Devices :
            memc[d] = OneInserterStore(put_log[d],
                                       [lat |-> 0, lon |-> 0, apps |-> <<>>],
                                       {}, {})

\* The older of two records with one key is the one the store ends with.
C16_OlderValueWins ==
    /\ CleanRun
    /\ Len(put_log["idfa"]) = 2
    /\ Key(put_log["idfa"][1]) = Key(put_log["idfa"][2])
    /\ OwnValue(put_log["idfa"][1]) # OwnValue(put_log["idfa"][2])
    /\ memc["idfa"] =
          {<<Key(put_log["idfa"][1]), OwnValue(put_log["idfa"][1])>>}

\* ---- Joins, sentinels and batch sizes ---------------------------------------

\* C17: once process_file has summed the errors queue, no inserter is
\* running any more and nothing has been put on the queue since: every error
\* an inserter counted was counted before the sum.
C17_ErrorsReadAfterInserters ==
    Joined =>
        /\ \A t \in Threads : th[t] # "running"
        /\ errors_queue = <<>>
        /\ errors >= FailedKeysReported

\* The sum was taken with two inserters per device type, one of which had
\* counted failed keys.
C17_Witness ==
    /\ Joined /\ inserts_by_device_count = 2
    /\ \E t \in Threads : FailedKeysOf({t}) >= 1
    /\ errors >= 1

\* The last store call of inserter t, after the step.
LastCall(t) == calls'[t][Len(calls'[t])]

\* C18: the step in which an inserter takes its sentinel ends it. With a
\* batch, that step makes exactly one set_multi call, with that batch, and
\* puts the number of keys the call reported failed on the errors queue;
\* without a batch it makes no store call. An inserter that has ended takes
\* nothing from the queue and calls nothing any more.
C18_SentinelFlushesOnce ==
    [][/\ \A t \in Threads :
             (CanGet(t) /\ Falsy(Item(t)) /\ th'[t] # "running")
             => IF keys[t] # {}
                THEN /\ Len(calls'[t]) = Len(calls[t]) + 1
                     /\ LastCall(t).batch = keys[t]
                     /\ errors_queue' =
                           IF LastCall(t).failed # {}
                           THEN Append(errors_queue,
                                       Cardinality(LastCall(t).failed))
                           ELSE errors_queue
                ELSE /\ th'[t] = "returned"
                     /\ calls' = calls
                     /\ memc' = memc
                     /\ errors_queue' = errors_queue
       /\ \A t \in Threads :
             th[t] \in {"returned", "raised"}
             => /\ th'[t] = th[t]
                /\ calls'[t] = calls[t]
                /\ keys'[t] = keys[t]
       /\ \A d \in Devices :
             (device_memc[d] # <<>> /\ device_memc'[d] = Tail(device_memc[d]))
             => \E t \in ThreadsOf(d) : th[t] = "running"]_vars

\* An inserter returned on its sentinel after one call with its last batch,
\* part of which the store reported failed, while the queue still holds the
\* other inserter's sentinel.
C18_Witness ==
    \E t \in Threads :
        /\ th[t] = "returned"
        /\ keys[t] # {}
        /\ Len(calls[t]) = 1
        /\ calls[t][1].batch = keys[t]
        /\ calls[t][1].failed # {}
        /\ device_memc[t[1]] # <<>>

\* C19: the file unit always finishes and the invocation exits after it: as
\* long as the invocation has not exited, some step of the program can be
\* taken (no state is a hang), and the invocation exits only once the file
\* unit's process has ended.
C19_UnitFinishes ==
    /\ main_pc = "exited" \/ ENABLED Next
    /\ (main_pc = "exited" /\ pc # "idle") => ProcessEnded

\* The reader has raised in mid-stream; the inserters wait on empty queues
\* for sentinels that will not come, and main waits for the process.
C19_InsertersWaitForever ==
    /\ main_pc = "join" /\ pc = "raised" /\ exc = "EOFError"
    /\ \E t \in Threads : th[t] = "running"
    /\ \A d \in Devices : device_memc[d] = <<>>
    /\ ~ENABLED Next

\* C20: an inserter's batch never holds more entries than the threshold,
\* which is at most MEMC_BATCH_SIZE; every set_multi call is made with at
\* least one and at most that many keys; and the step that sends the batch
\* at the threshold leaves it empty, whatever keys the call reported failed.
C20_BatchBounded ==
    /\ [](/\ batch_size <= MEMC_BATCH_SIZE
          /\ \A t \in Threads : DictLen(keys[t]) <= batch_size
          /\ \A c \in AllCalls :
                DictLen(c.batch) >= 1 /\ DictLen(c.batch) <= batch_size)
    /\ [][\A t \in Threads :
             (/\ CanGet(t) /\ ~Falsy(Item(t))
              /\ Len(calls'[t]) = Len(calls[t]) + 1
              /\ ~LastCall(t).raised)
             => keys'[t] = {}]_vars

\* An inserter has just sent a full batch at the threshold, the store
\* reported one of its keys failed, and the batch is empty.
C20_Witness ==
    \E t \in Threads :
        /\ th[t] = "running"
        /\ keys[t] = {}
        /\ Len(calls[t]) = 1
        /\ DictLen(calls[t][1].batch) = batch_size
        /\ Cardinality(calls[t][1].failed) = 1

====
